---- MODULE Spec2Model ----
(***************************************************************************)
(* Model of the adr command-line tool (helpers.go, commands.go).           *)
(*                                                                         *)
(* Text (file contents, paths, titles) is a sequence of tokens; a token is *)
(* a TLA+ string standing for one or more characters.  Characters a user   *)
(* can type in a title are one-character tokens.  The filesystem is a set  *)
(* of directories and a function from file paths to contents.  Each        *)
(* command (init, new) is one action that runs the whole handler.          *)
(***************************************************************************)
EXTENDS Integers, Sequences, FiniteSets, TLC

\* Model bound: a behaviour holds at most MaxEvents events, an event being an
\* invocation of the tool or an I/O fault injected into one.
MaxEvents == 4

VARIABLES
    dirs,      \* the directories that exist
    files,     \* file path -> content
    now,       \* the wall clock, in seconds after the start: one per invocation
    nfaults,   \* injected I/O faults so far
    pre,       \* the filesystem before the last command
    last,      \* the last command, its inputs and what it returned
    epoch,     \* bookkeeping since the last init that wrote a config
    procs      \* the invocations running at the same time, each with its
               \* position in the handler and its local variables

vars == <<dirs, files, now, nfaults, pre, last, epoch, procs>>

-----------------------------------------------------------------------------
(* Text helpers *)

RECURSIVE Concat(_)
Concat(ss) == IF ss = <<>> THEN <<>> ELSE Head(ss) \o Concat(Tail(ss))

\* index of the last occurrence of tok in s, 0 if none
RECURSIVE LastIndex(_, _)
LastIndex(s, tok) ==
    IF s = <<>> THEN 0
    ELSE IF s[Len(s)] = tok THEN Len(s)
    ELSE LastIndex(SubSeq(s, 1, Len(s) - 1), tok)

\* index of the first occurrence of tok in s, 0 if none
RECURSIVE FirstIndexFrom(_, _, _)
FirstIndexFrom(s, tok, i) ==
    IF i > Len(s) THEN 0
    ELSE IF s[i] = tok THEN i
    ELSE FirstIndexFrom(s, tok, i + 1)

HasPrefix(s, p) == Len(s) >= Len(p) /\ SubSeq(s, 1, Len(p)) = p

\* strings.Join(words, sep)
RECURSIVE Join(_, _)
Join(words, sep) ==
    IF words = <<>> THEN <<>>
    ELSE IF Len(words) = 1 THEN words[1]
    ELSE words[1] \o sep \o Join(Tail(words), sep)

\* strings.Split(s, sep) for a one-token separator: always at least one piece
RECURSIVE Split(_, _)
Split(s, sep) ==
    LET i == FirstIndexFrom(s, sep, 1)
    IN IF i = 0 THEN <<s>>
       ELSE <<SubSeq(s, 1, i - 1)>> \o Split(SubSeq(s, i + 1, Len(s)), sep)

RECURSIVE TrimLeft(_, _)
TrimLeft(s, cutset) ==
    IF s # <<>> /\ Head(s) \in cutset THEN TrimLeft(Tail(s), cutset) ELSE s

RECURSIVE TrimRight(_, _)
TrimRight(s, cutset) ==
    IF s # <<>> /\ s[Len(s)] \in cutset
    THEN TrimRight(SubSeq(s, 1, Len(s) - 1), cutset) ELSE s

\* strings.Trim(s, cutset)
Trim(s, cutset) == TrimRight(TrimLeft(s, cutset), cutset)

Digits == <<"0", "1", "2", "3", "4", "5", "6", "7", "8", "9">>

\* strconv.Itoa: plain decimal, no padding, a minus sign for n < 0
RECURSIVE Itoa(_)
Itoa(n) ==
    IF n < 0 THEN <<"-">> \o Itoa(0 - n)
    ELSE IF n < 10 THEN <<Digits[n + 1]>>
    ELSE Itoa(n \div 10) \o <<Digits[(n % 10) + 1]>>

DigitValue(tok) == (CHOOSE d \in 1..10 : Digits[d] = tok) - 1
IsDigit(tok) == \E d \in 1..10 : Digits[d] = tok

\* the integer a run of digit tokens denotes
RECURSIVE Atoi(_)
Atoi(ds) == IF ds = <<>> THEN 0 ELSE 10 * Atoi(SubSeq(ds, 1, Len(ds) - 1)) + DigitValue(ds[Len(ds)])

\* a JSON integer: an optional minus sign, then 0 or digits not starting with 0
IsJsonInt(ds) ==
    LET body == IF ds # <<>> /\ Head(ds) = "-" THEN Tail(ds) ELSE ds
    IN /\ body # <<>>
       /\ \A i \in 1..Len(body) : IsDigit(body[i])
       /\ (Len(body) > 1 => body[1] # "0")

\* the integer a JSON integer denotes
ParseJsonInt(ds) == IF Head(ds) = "-" THEN 0 - Atoi(Tail(ds)) ELSE Atoi(ds)

-----------------------------------------------------------------------------
(* Paths: a path is text whose "/" tokens separate its components *)

SEP == "/"
Root == <<SEP>>

Cwd == <<".">>

\* filepath.Join(dir, name) for a name without separators; an empty element
\* is ignored
PathJoin(dir, name) ==
    IF dir = <<>> THEN name
    ELSE IF dir = Root THEN Root \o name
    ELSE dir \o <<SEP>> \o name

\* filepath.Dir(p)
PathDir(p) ==
    LET i == LastIndex(p, SEP)
    IN IF i = 0 THEN Cwd
       ELSE IF i = 1 THEN Root
       ELSE SubSeq(p, 1, i - 1)

\* filepath.Base(p)
PathBase(p) == SubSeq(p, LastIndex(p, SEP) + 1, Len(p))

-----------------------------------------------------------------------------
(* PathConfig: the fixed locations, derived from the home directory *)

UserHomeDir == <<SEP, "home">>
ConfigFolderName == <<".adr">>
ConfigFileName == <<"config.json">>
TemplateFileName == <<"template.md">>

\* NewPathConfig that puts the template beside the ADRs
NewPathConfig_TemplateInBase(home) ==
    LET folder == PathJoin(home, ConfigFolderName)
    IN [ UserHomeDir       |-> home,
         ConfigFolderPath  |-> folder,
         ConfigFilePath    |-> PathJoin(folder, ConfigFileName),
         TemplateFilePath  |-> PathJoin(PathJoin(home, <<"adr">>), TemplateFileName),
         DefaultBaseFolder |-> PathJoin(home, <<"adr">>) ]

\* NewPathConfig
NewPathConfig(home) ==
    LET folder == PathJoin(home, ConfigFolderName)
    IN [ UserHomeDir       |-> home,
         ConfigFolderPath  |-> folder,
         ConfigFilePath    |-> PathJoin(folder, ConfigFileName),
         TemplateFilePath  |-> PathJoin(folder, TemplateFileName),
         DefaultBaseFolder |-> PathJoin(home, <<"adr">>) ]

pathCfg == NewPathConfig(UserHomeDir)

GetDefaultBaseFolder == pathCfg.DefaultBaseFolder

-----------------------------------------------------------------------------
(* Filesystem primitives.  s is a filesystem [dirs, files]; every primitive *)
(* returns the filesystem after the call and the error ("nil" for none).    *)

Exists(s, p) == p \in s.dirs \/ p \in DOMAIN s.files

\* os.Stat(p) followed by os.IsNotExist(err)
StatIsNotExist(s, p) == ~Exists(s, p)

\* os.Mkdir: the parent must exist and the path must be free
Mkdir(s, p) ==
    IF Exists(s, p) THEN [fs |-> s, err |-> "EEXIST"]
    ELSE IF PathDir(p) \notin s.dirs THEN [fs |-> s, err |-> "ENOENT"]
    ELSE [fs |-> [s EXCEPT !.dirs = @ \cup {p}], err |-> "nil"]

SetFile(s, p, data) ==
    [s EXCEPT !.files = [q \in (DOMAIN @) \cup {p} |-> IF q = p THEN data ELSE @[q]]]

\* An injected I/O fault: where it strikes ("config", "template", "adr",
\* "crash", or "none"), and how: "open" refuses the open and leaves the file
\* untouched, "short" lets the open succeed and fails after keep units.
NoFault == [at |-> "none", kind |-> "none", keep |-> 0]
FaultAt(fault, at) == IF fault.at = at THEN fault ELSE NoFault

Min(a, b) == IF a < b THEN a ELSE b

\* os.WriteFile: open with O_CREATE|O_TRUNC, then write everything
WriteFile(s, p, data, fault) ==
    IF PathDir(p) \notin s.dirs THEN [fs |-> s, err |-> "ENOENT"]
    ELSE IF p \in s.dirs THEN [fs |-> s, err |-> "EISDIR"]
    ELSE IF fault.kind = "open" THEN [fs |-> s, err |-> "EACCES"]
    ELSE IF fault.kind = "short"
         THEN [fs |-> SetFile(s, p, SubSeq(data, 1, Min(fault.keep, Len(data)))), err |-> "EIO"]
    ELSE [fs |-> SetFile(s, p, data), err |-> "nil"]

\* os.ReadFile
ReadFile(s, p) ==
    IF p \in DOMAIN s.files THEN [data |-> s.files[p], err |-> "nil"]
    ELSE [data |-> <<>>, err |-> "ENOENT"]

\* os.Create that refuses a file that is already there (O_EXCL)
Create_Exclusive(s, p) ==
    IF PathDir(p) \notin s.dirs THEN [fs |-> s, err |-> "ENOENT"]
    ELSE IF p \in s.dirs THEN [fs |-> s, err |-> "EISDIR"]
    ELSE IF p \in DOMAIN s.files THEN [fs |-> s, err |-> "EEXIST"]
    ELSE [fs |-> SetFile(s, p, <<>>), err |-> "nil"]

\* os.Create: O_CREATE|O_TRUNC, an existing file is emptied
Create(s, p) ==
    IF PathDir(p) \notin s.dirs THEN [fs |-> s, err |-> "ENOENT"]
    ELSE IF p \in s.dirs THEN [fs |-> s, err |-> "EISDIR"]
    ELSE [fs |-> SetFile(s, p, <<>>), err |-> "nil"]

-----------------------------------------------------------------------------
(* AdrConfig and its JSON form *)

ZeroConfig == [BaseDir |-> <<>>, CurrentAdr |-> 0]

JsonHead == <<"{", "\n", " ", "\"base_directory\"", ": ", "\"">>
JsonMid == <<"\"", ",", "\n", " ", "\"current_id\"", ": ">>
JsonTail == <<"\n", "}">>

\* A byte that is not part of any UTF-8 sequence, and the replacement
\* character U+FFFD, as tokens
InvalidByte == "0xFF"
ReplacementChar == "U+FFFD"

\* encoding/json's string encoder: quotes, backslashes and control
\* characters are escaped, so are <, > and &, and a byte that is not UTF-8
\* is written as the escape of U+FFFD
JsonEscapeToken(tok) ==
    CASE tok = "\""        -> "\\\""
      [] tok = "\\"        -> "\\\\"
      [] tok = "\n"        -> "\\n"
      [] tok = "\t"        -> "\\t"
      [] tok = "&"         -> "\\u0026"
      [] tok = "<"         -> "\\u003c"
      [] tok = ">"         -> "\\u003e"
      [] tok = InvalidByte -> "\\ufffd"
      [] OTHER             -> tok

JsonEscape(str) == [i \in 1..Len(str) |-> JsonEscapeToken(str[i])]

\* encoding/json's string decoder, for the escapes above
JsonUnescapeToken(tok) ==
    CASE tok = "\\\""     -> "\""
      [] tok = "\\\\"     -> "\\"
      [] tok = "\\n"      -> "\n"
      [] tok = "\\t"      -> "\t"
      [] tok = "\\u0026"  -> "&"
      [] tok = "\\u003c"  -> "<"
      [] tok = "\\u003e"  -> ">"
      [] tok = "\\ufffd"  -> ReplacementChar
      [] tok = InvalidByte -> ReplacementChar
      [] OTHER            -> tok

JsonUnescape(str) == [i \in 1..Len(str) |-> JsonUnescapeToken(str[i])]

\* MarshalIndent that writes the string as it is, without escaping
MarshalIndent_Raw(config) ==
    JsonHead \o config.BaseDir \o JsonMid \o Itoa(config.CurrentAdr) \o JsonTail

\* json.MarshalIndent(config, "", " ")
MarshalIndent(config) ==
    JsonHead \o JsonEscape(config.BaseDir) \o JsonMid \o Itoa(config.CurrentAdr) \o JsonTail

\* json.Unmarshal(bytes, &currentConfig): the config the document denotes,
\* or the untouched zero value and an error
Unmarshal(bytes) ==
    LET bad == [config |-> ZeroConfig, err |-> "EJSON"]
    IN IF ~HasPrefix(bytes, JsonHead) THEN bad
       ELSE LET r1 == SubSeq(bytes, Len(JsonHead) + 1, Len(bytes))
                q  == FirstIndexFrom(r1, "\"", 1)
            IN IF q = 0 THEN bad
               ELSE LET base == SubSeq(r1, 1, q - 1)
                        r2   == SubSeq(r1, q, Len(r1))
                    IN IF (\E i \in 1..Len(base) : base[i] \in {"\n", "\t", "\\"})
                          \/ ~HasPrefix(r2, JsonMid) THEN bad
                       ELSE LET r3 == SubSeq(r2, Len(JsonMid) + 1, Len(r2))
                                e  == FirstIndexFrom(r3, "\n", 1)
                            IN IF e <= 1 THEN bad
                               ELSE LET ds == SubSeq(r3, 1, e - 1)
                                    IN IF IsJsonInt(ds) /\ SubSeq(r3, e, Len(r3)) = JsonTail
                                       THEN [config |-> [BaseDir |-> JsonUnescape(base),
                                                         CurrentAdr |-> ParseJsonInt(ds)],
                                             err |-> "nil"]
                                       ELSE bad

-----------------------------------------------------------------------------
(* The template *)

DefaultTemplate ==
    << "\n",
       "# ", "{{", ".Number", "}}", ". ", "{{", ".Title", "}}", "\n",
       "======", "\n",
       "Date: ", "{{", ".Date", "}}", "\n",
       "\n",
       "## Status", "\n",
       "======", "\n",
       "{{", ".Status", "}}", "\n",
       "\n",
       "## Context", "\n",
       "======", "\n",
       "\n",
       "## Decision", "\n",
       "======", "\n",
       "\n",
       "## Consequences", "\n",
       "======", "\n",
       "\n" >>

\* what may stand between {{ and }}: a reference to a field of the data
FieldRefs == {".Number", ".Title", ".Date", ".Status", ".Author"}

\* template parsing: text runs and {{.Field}} actions, in order; an action
\* that is not closed, or holds no field reference, is a syntax error
RECURSIVE ParseTemplate(_)
ParseTemplate(toks) ==
    IF toks = <<>> THEN [nodes |-> <<>>, err |-> "nil"]
    ELSE IF Head(toks) = "{{"
    THEN IF Len(toks) >= 3 /\ toks[2] \in FieldRefs /\ toks[3] = "}}"
         THEN LET rest == ParseTemplate(SubSeq(toks, 4, Len(toks)))
              IN [nodes |-> <<[kind |-> "action", field |-> toks[2], text |-> <<>>]>> \o rest.nodes,
                  err |-> rest.err]
         ELSE [nodes |-> <<>>, err |-> "ETEMPLATE"]
    ELSE LET rest == ParseTemplate(Tail(toks))
         IN IF rest.nodes # <<>> /\ rest.nodes[1].kind = "text"
            THEN [nodes |-> <<[rest.nodes[1] EXCEPT !.text = <<Head(toks)>> \o @]>> \o Tail(rest.nodes),
                  err |-> rest.err]
            ELSE [nodes |-> <<[kind |-> "text", field |-> "", text |-> <<Head(toks)>>]>> \o rest.nodes,
                  err |-> rest.err]

\* template.ParseFiles(path)
ParseFiles(s, path) ==
    LET r == ReadFile(s, path)
    IN IF r.err # "nil" THEN [nodes |-> <<>>, err |-> r.err]
       ELSE LET t == ParseTemplate(r.data)
            IN IF t.err # "nil" THEN [nodes |-> <<>>, err |-> t.err] ELSE t

\* html/template's escaper for values in text context
HTMLEscapeToken(tok) ==
    CASE tok = "&"  -> "&amp;"
      [] tok = "<"  -> "&lt;"
      [] tok = ">"  -> "&gt;"
      [] tok = "\"" -> "&#34;"
      [] tok = "'"  -> "&#39;"
      [] tok = "+"  -> "&#43;"
      [] OTHER      -> tok

HTMLEscape(str) == [i \in 1..Len(str) |-> HTMLEscapeToken(str[i])]

\* the text an action writes for a field of the Adr, or an error for a
\* field the Adr does not have
EvalField(adr, field) ==
    CASE field = ".Number" -> [out |-> Itoa(adr.Number), err |-> "nil"]
      [] field = ".Title"  -> [out |-> HTMLEscape(adr.Title), err |-> "nil"]
      [] field = ".Date"   -> [out |-> HTMLEscape(adr.Date), err |-> "nil"]
      [] field = ".Status" -> [out |-> HTMLEscape(<<adr.Status>>), err |-> "nil"]
      [] OTHER             -> [out |-> <<>>, err |-> "EEXEC"]

\* tmpl.Execute(f, adr): each node is written to the file in turn, so a
\* failure leaves what was written before it.  budget is the number of
\* writes the file accepts (-1: all of them).
RECURSIVE Execute(_, _, _)
Execute(nodes, adr, budget) ==
    IF nodes = <<>> THEN [out |-> <<>>, err |-> "nil"]
    ELSE LET n == Head(nodes)
             v == IF n.kind = "text" THEN [out |-> n.text, err |-> "nil"]
                  ELSE EvalField(adr, n.field)
         IN IF v.err # "nil" THEN [out |-> <<>>, err |-> v.err]
            ELSE IF budget = 0 THEN [out |-> <<>>, err |-> "EIO"]
            ELSE LET rest == Execute(Tail(nodes), adr, IF budget > 0 THEN budget - 1 ELSE budget)
                 IN [out |-> v.out \o rest.out, err |-> rest.err]

Pad2(n) == IF n < 10 THEN <<"0">> \o Itoa(n) ELSE Itoa(n)

\* time.Now(): the start instant plus the seconds elapsed
TimeNow(clock) ==
    [day |-> 3, month |-> 11, year |-> 2026,
     hour |-> 9, min |-> 5, sec |-> clock % 60]

\* t.Format("02-01-2006 15:04:05")
Format(t) ==
    Pad2(t.day) \o <<"-">> \o Pad2(t.month) \o <<"-">> \o Itoa(t.year) \o <<" ">>
    \o Pad2(t.hour) \o <<":">> \o Pad2(t.min) \o <<":">> \o Pad2(t.sec)

PROPOSED == "Proposed"
ACCEPTED == "Accepted"
DEPRECATED == "Deprecated"
SUPERSEDED == "Superseded"

-----------------------------------------------------------------------------
(* helpers.go *)

\* initBaseDir that removes a directory it finds at the path
initBaseDir_RemovesExisting(s, baseDir) ==
    IF StatIsNotExist(s, baseDir) THEN Mkdir(s, baseDir).fs
    ELSE [s EXCEPT !.dirs = @ \ {baseDir}]

\* initBaseDir: create the directory when nothing is at the path; the
\* result of os.Mkdir is not looked at
initBaseDir(s, baseDir) ==
    IF StatIsNotExist(s, baseDir) THEN Mkdir(s, baseDir).fs ELSE s

\* initConfig that does not create the config folder
initConfig_NoMkdir(s, baseDir, fault) ==
    WriteFile(s, pathCfg.ConfigFilePath,
              MarshalIndent([BaseDir |-> baseDir, CurrentAdr |-> 0]), fault)

\* initConfig with the counter starting at one
initConfig_StartsAtOne(s, baseDir, fault) ==
    LET m == IF StatIsNotExist(s, pathCfg.ConfigFolderPath)
             THEN Mkdir(s, pathCfg.ConfigFolderPath)
             ELSE [fs |-> s, err |-> "nil"]
    IN IF m.err # "nil" THEN m
       ELSE WriteFile(m.fs, pathCfg.ConfigFilePath,
                      MarshalIndent([BaseDir |-> baseDir, CurrentAdr |-> 1]), fault)

\* initConfig that keeps the counter of a config already there
initConfig_KeepsCounter(s, baseDir, fault) ==
    LET m == IF StatIsNotExist(s, pathCfg.ConfigFolderPath)
             THEN Mkdir(s, pathCfg.ConfigFolderPath)
             ELSE [fs |-> s, err |-> "nil"]
        r == ReadFile(s, pathCfg.ConfigFilePath)
        old == IF r.err = "nil" THEN Unmarshal(r.data).config.CurrentAdr ELSE 0
    IN IF m.err # "nil" THEN m
       ELSE WriteFile(m.fs, pathCfg.ConfigFilePath,
                      MarshalIndent([BaseDir |-> baseDir, CurrentAdr |-> old]), fault)

\* initConfig
initConfig(s, baseDir, fault) ==
    LET m == IF StatIsNotExist(s, pathCfg.ConfigFolderPath)
             THEN Mkdir(s, pathCfg.ConfigFolderPath)
             ELSE [fs |-> s, err |-> "nil"]
    IN IF m.err # "nil" THEN m
       ELSE LET config == [BaseDir |-> baseDir, CurrentAdr |-> 0]
            IN WriteFile(m.fs, pathCfg.ConfigFilePath, MarshalIndent(config), fault)

\* initTemplate
initTemplate(s, fault) == WriteFile(s, pathCfg.TemplateFilePath, DefaultTemplate, fault)

\* updateConfig that writes the counter and an empty base directory
updateConfig_DropsBaseDir(s, config, fault) ==
    WriteFile(s, pathCfg.ConfigFilePath,
              MarshalIndent([config EXCEPT !.BaseDir = <<>>]), fault)

\* updateConfig that reports success without writing
updateConfig_NotPersisted(s, config, fault) == [fs |-> s, err |-> "nil"]

\* updateConfig
updateConfig(s, config, fault) ==
    WriteFile(s, pathCfg.ConfigFilePath, MarshalIndent(config), fault)

\* getConfig that does not look at what json.Unmarshal returns
getConfig_IgnoresParseError(s) ==
    LET r == ReadFile(s, pathCfg.ConfigFilePath)
    IN IF r.err # "nil" THEN [config |-> ZeroConfig, err |-> r.err]
       ELSE [config |-> Unmarshal(r.data).config, err |-> "nil"]

\* getConfig that hands out the zero value, without error, when the file
\* cannot be read
getConfig_ZeroOnMissing(s) ==
    LET r == ReadFile(s, pathCfg.ConfigFilePath)
    IN IF r.err # "nil" THEN [config |-> ZeroConfig, err |-> "nil"]
       ELSE Unmarshal(r.data)

\* getConfig
getConfig(s) ==
    LET r == ReadFile(s, pathCfg.ConfigFilePath)
    IN IF r.err # "nil" THEN [config |-> ZeroConfig, err |-> r.err]
       ELSE Unmarshal(r.data)

\* the file name with the number padded to five digits
adrFileName_ZeroPadded(number, title) ==
    SubSeq(<<"0", "0", "0", "0">>, 1, 5 - Len(Itoa(number))) \o Itoa(number) \o <<"-">>
    \o Join(Split(Trim(title, {"\n", " ", "\t"}), " "), <<"-">>)
    \o <<".", "m", "d">>

\* the file name newAdr gives an ADR
adrFileName(number, title) ==
    Itoa(number) \o <<"-">>
    \o Join(Split(Trim(title, {"\n", " ", "\t"}), " "), <<"-">>)
    \o <<".", "m", "d">>

\* newAdr that creates the file before it loads the template
newAdr_CreatesBeforeParse(s, config, adrName, clock, fault) ==
    LET adr  == [Title  |-> Join(adrName, <<" ">>),
                 Date   |-> Format(TimeNow(clock)),
                 Number |-> config.CurrentAdr,
                 Status |-> PROPOSED]
        adrFullPath == PathJoin(config.BaseDir, adrFileName(adr.Number, adr.Title))
        f    == Create(s, adrFullPath)
        tmpl == ParseFiles(f.fs, pathCfg.TemplateFilePath)
        x    == Execute(tmpl.nodes, adr, IF fault.kind = "short" THEN fault.keep ELSE -1)
    IN IF f.err # "nil"
       THEN [fs |-> s, err |-> f.err, path |-> adrFullPath, step |-> "Create"]
       ELSE IF tmpl.err # "nil"
       THEN [fs |-> f.fs, err |-> tmpl.err, path |-> <<>>, step |-> "ParseFiles"]
       ELSE IF x.err # "nil"
       THEN [fs |-> SetFile(f.fs, adrFullPath, x.out), err |-> x.err,
             path |-> adrFullPath, step |-> "Execute"]
       ELSE [fs |-> SetFile(f.fs, adrFullPath, x.out), err |-> "nil",
             path |-> adrFullPath, step |-> "done"]

\* newAdr that removes the file when executing the template fails
newAdr_DropsPartial(s, config, adrName, clock, fault) ==
    LET adr  == [Title  |-> Join(adrName, <<" ">>),
                 Date   |-> Format(TimeNow(clock)),
                 Number |-> config.CurrentAdr,
                 Status |-> PROPOSED]
        tmpl == ParseFiles(s, pathCfg.TemplateFilePath)
        adrFullPath == PathJoin(config.BaseDir, adrFileName(adr.Number, adr.Title))
        f    == Create(s, adrFullPath)
        x    == Execute(tmpl.nodes, adr, IF fault.kind = "short" THEN fault.keep ELSE -1)
    IN IF tmpl.err # "nil"
       THEN [fs |-> s, err |-> tmpl.err, path |-> <<>>, step |-> "ParseFiles"]
       ELSE IF f.err # "nil"
       THEN [fs |-> s, err |-> f.err, path |-> adrFullPath, step |-> "Create"]
       ELSE IF x.err # "nil"
       THEN [fs |-> s, err |-> x.err, path |-> adrFullPath, step |-> "Execute"]
       ELSE [fs |-> SetFile(f.fs, adrFullPath, x.out), err |-> "nil",
             path |-> adrFullPath, step |-> "done"]

\* newAdr that creates the file and never executes the template into it
newAdr_NoExecute(s, config, adrName, clock, fault) ==
    LET adr  == [Title  |-> Join(adrName, <<" ">>),
                 Date   |-> Format(TimeNow(clock)),
                 Number |-> config.CurrentAdr,
                 Status |-> PROPOSED]
        tmpl == ParseFiles(s, pathCfg.TemplateFilePath)
        adrFullPath == PathJoin(config.BaseDir, adrFileName(adr.Number, adr.Title))
        f    == Create(s, adrFullPath)
    IN IF tmpl.err # "nil"
       THEN [fs |-> s, err |-> tmpl.err, path |-> <<>>, step |-> "ParseFiles"]
       ELSE IF f.err # "nil"
       THEN [fs |-> s, err |-> f.err, path |-> adrFullPath, step |-> "Create"]
       ELSE [fs |-> f.fs, err |-> "nil", path |-> adrFullPath, step |-> "done"]

\* newAdr.  Returns the filesystem, the error, the path it computed and the
\* step it ended at.
newAdr(s, config, adrName, clock, fault) ==
    LET adr  == [Title  |-> Join(adrName, <<" ">>),
                 Date   |-> Format(TimeNow(clock)),
                 Number |-> config.CurrentAdr,
                 Status |-> PROPOSED]
        tmpl == ParseFiles(s, pathCfg.TemplateFilePath)
        adrFullPath == PathJoin(config.BaseDir, adrFileName(adr.Number, adr.Title))
        f    == Create(s, adrFullPath)
        x    == Execute(tmpl.nodes, adr, IF fault.kind = "short" THEN fault.keep ELSE -1)
    IN IF tmpl.err # "nil"
       THEN [fs |-> s, err |-> tmpl.err, path |-> <<>>, step |-> "ParseFiles"]
       ELSE IF f.err # "nil"
       THEN [fs |-> s, err |-> f.err, path |-> adrFullPath, step |-> "Create"]
       ELSE IF x.err # "nil"
       THEN [fs |-> SetFile(f.fs, adrFullPath, x.out), err |-> x.err,
             path |-> adrFullPath, step |-> "Execute"]
       ELSE [fs |-> SetFile(f.fs, adrFullPath, x.out), err |-> "nil",
             path |-> adrFullPath, step |-> "done"]

-----------------------------------------------------------------------------
(* commands.go *)

\* NewCmd that looks for the template before it writes the config
NewCmd_ChecksTemplateFirst(s, args, clock, fault) ==
    LET g == getConfig(s)
        currentConfig == [g.config EXCEPT !.CurrentAdr = @ + 1]
        u == updateConfig(s, currentConfig, FaultAt(fault, "config"))
        a == newAdr(u.fs, currentConfig, args, clock, FaultAt(fault, "adr"))
    IN IF g.err # "nil"
       THEN [fs |-> s, err |-> g.err, number |-> 0, path |-> <<>>, step |-> "getConfig"]
       ELSE IF StatIsNotExist(s, pathCfg.TemplateFilePath)
       THEN [fs |-> s, err |-> "ENOENT", number |-> 0, path |-> <<>>, step |-> "ParseFiles"]
       ELSE IF u.err # "nil"
       THEN [fs |-> u.fs, err |-> u.err, number |-> 0, path |-> <<>>, step |-> "updateConfig"]
       ELSE IF fault.at = "crash"
       THEN [fs |-> u.fs, err |-> "crash", number |-> currentConfig.CurrentAdr,
             path |-> <<>>, step |-> "crash"]
       ELSE [fs |-> a.fs, err |-> a.err, number |-> currentConfig.CurrentAdr,
             path |-> a.path, step |-> a.step]

\* NewCmd that goes on to newAdr when updateConfig failed, and returns the
\* error of updateConfig afterwards
NewCmd_FileDespiteWriteError(s, args, clock, fault) ==
    LET g == getConfig(s)
        currentConfig == [g.config EXCEPT !.CurrentAdr = @ + 1]
        u == updateConfig(s, currentConfig, FaultAt(fault, "config"))
        a == newAdr(u.fs, currentConfig, args, clock, FaultAt(fault, "adr"))
    IN IF g.err # "nil"
       THEN [fs |-> s, err |-> g.err, number |-> 0, path |-> <<>>, step |-> "getConfig"]
       ELSE IF u.err # "nil"
       THEN [fs |-> a.fs, err |-> u.err, number |-> 0, path |-> <<>>, step |-> "updateConfig"]
       ELSE IF fault.at = "crash"
       THEN [fs |-> u.fs, err |-> "crash", number |-> currentConfig.CurrentAdr,
             path |-> <<>>, step |-> "crash"]
       ELSE [fs |-> a.fs, err |-> a.err, number |-> currentConfig.CurrentAdr,
             path |-> a.path, step |-> a.step]

\* NewCmd that numbers the ADR before incrementing the counter
NewCmd_NumberBeforeIncrement(s, args, clock, fault) ==
    LET g == getConfig(s)
        currentConfig == [g.config EXCEPT !.CurrentAdr = @ + 1]
        u == updateConfig(s, currentConfig, FaultAt(fault, "config"))
        a == newAdr(u.fs, g.config, args, clock, FaultAt(fault, "adr"))
    IN IF g.err # "nil"
       THEN [fs |-> s, err |-> g.err, number |-> 0, path |-> <<>>, step |-> "getConfig"]
       ELSE IF u.err # "nil"
       THEN [fs |-> u.fs, err |-> u.err, number |-> 0, path |-> <<>>, step |-> "updateConfig"]
       ELSE IF fault.at = "crash"
       THEN [fs |-> u.fs, err |-> "crash", number |-> currentConfig.CurrentAdr,
             path |-> <<>>, step |-> "crash"]
       ELSE [fs |-> a.fs, err |-> a.err, number |-> currentConfig.CurrentAdr,
             path |-> a.path, step |-> a.step]

\* NewCmd that numbers the ADR with the incremented counter but writes the
\* config back as it was read
NewCmd_WritesOldCounter(s, args, clock, fault) ==
    LET g == getConfig(s)
        currentConfig == [g.config EXCEPT !.CurrentAdr = @ + 1]
        u == updateConfig(s, g.config, FaultAt(fault, "config"))
        a == newAdr(u.fs, currentConfig, args, clock, FaultAt(fault, "adr"))
    IN IF g.err # "nil"
       THEN [fs |-> s, err |-> g.err, number |-> 0, path |-> <<>>, step |-> "getConfig"]
       ELSE IF u.err # "nil"
       THEN [fs |-> u.fs, err |-> u.err, number |-> 0, path |-> <<>>, step |-> "updateConfig"]
       ELSE IF fault.at = "crash"
       THEN [fs |-> u.fs, err |-> "crash", number |-> currentConfig.CurrentAdr,
             path |-> <<>>, step |-> "crash"]
       ELSE [fs |-> a.fs, err |-> a.err, number |-> currentConfig.CurrentAdr,
             path |-> a.path, step |-> a.step]

\* NewCmd that refuses an invocation without title words
NewCmd_RejectsEmptyTitle(s, args, clock, fault) ==
    LET g == getConfig(s)
        currentConfig == [g.config EXCEPT !.CurrentAdr = @ + 1]
        u == updateConfig(s, currentConfig, FaultAt(fault, "config"))
        a == newAdr(u.fs, currentConfig, args, clock, FaultAt(fault, "adr"))
    IN IF args = <<>>
       THEN [fs |-> s, err |-> "EINVAL", number |-> 0, path |-> <<>>, step |-> "args"]
       ELSE IF g.err # "nil"
       THEN [fs |-> s, err |-> g.err, number |-> 0, path |-> <<>>, step |-> "getConfig"]
       ELSE IF u.err # "nil"
       THEN [fs |-> u.fs, err |-> u.err, number |-> 0, path |-> <<>>, step |-> "updateConfig"]
       ELSE IF fault.at = "crash"
       THEN [fs |-> u.fs, err |-> "crash", number |-> currentConfig.CurrentAdr,
             path |-> <<>>, step |-> "crash"]
       ELSE [fs |-> a.fs, err |-> a.err, number |-> currentConfig.CurrentAdr,
             path |-> a.path, step |-> a.step]

\* NewCmd that writes the ADR file first and the config after it
NewCmd_FileFirst(s, args, clock, fault) ==
    LET g == getConfig(s)
        currentConfig == [g.config EXCEPT !.CurrentAdr = @ + 1]
        a == newAdr(s, currentConfig, args, clock, FaultAt(fault, "adr"))
        u == updateConfig(a.fs, currentConfig, FaultAt(fault, "config"))
    IN IF g.err # "nil"
       THEN [fs |-> s, err |-> g.err, number |-> 0, path |-> <<>>, step |-> "getConfig"]
       ELSE IF a.err # "nil"
       THEN [fs |-> a.fs, err |-> a.err, number |-> currentConfig.CurrentAdr,
             path |-> a.path, step |-> a.step]
       ELSE IF fault.at = "crash"
       THEN [fs |-> a.fs, err |-> "crash", number |-> currentConfig.CurrentAdr,
             path |-> a.path, step |-> "crash"]
       ELSE IF u.err # "nil"
       THEN [fs |-> u.fs, err |-> u.err, number |-> currentConfig.CurrentAdr,
             path |-> a.path, step |-> "updateConfig"]
       ELSE [fs |-> u.fs, err |-> "nil", number |-> currentConfig.CurrentAdr,
             path |-> a.path, step |-> "done"]

\* NewCmd.Action.  number is the ADR number the invocation was given (0 when
\* it did not get that far).
NewCmd(s, args, clock, fault) ==
    LET g == getConfig(s)
        currentConfig == [g.config EXCEPT !.CurrentAdr = @ + 1]
        u == updateConfig(s, currentConfig, FaultAt(fault, "config"))
        a == newAdr(u.fs, currentConfig, args, clock, FaultAt(fault, "adr"))
    IN IF g.err # "nil"
       THEN [fs |-> s, err |-> g.err, number |-> 0, path |-> <<>>, step |-> "getConfig"]
       ELSE IF u.err # "nil"
       THEN [fs |-> u.fs, err |-> u.err, number |-> 0, path |-> <<>>, step |-> "updateConfig"]
       ELSE IF fault.at = "crash"
       THEN [fs |-> u.fs, err |-> "crash", number |-> currentConfig.CurrentAdr,
             path |-> <<>>, step |-> "crash"]
       ELSE [fs |-> a.fs, err |-> a.err, number |-> currentConfig.CurrentAdr,
             path |-> a.path, step |-> a.step]

\* InitCmd that installs the template before it writes the config
InitCmd_TemplateFirst(s, arg, fault) ==
    LET initDir == IF arg = <<>> THEN GetDefaultBaseFolder ELSE arg
        s1 == initBaseDir(s, initDir)
        m  == IF StatIsNotExist(s1, pathCfg.ConfigFolderPath)
              THEN Mkdir(s1, pathCfg.ConfigFolderPath).fs ELSE s1
        t  == initTemplate(m, FaultAt(fault, "template"))
        c  == initConfig(t.fs, initDir, FaultAt(fault, "config"))
    IN IF t.err # "nil"
       THEN [fs |-> t.fs, err |-> t.err, initDir |-> initDir, step |-> "initTemplate"]
       ELSE IF c.err # "nil"
       THEN [fs |-> c.fs, err |-> c.err, initDir |-> initDir, step |-> "initConfig"]
       ELSE [fs |-> c.fs, err |-> "nil", initDir |-> initDir, step |-> "done"]

\* InitCmd that refuses a base directory that is already there
InitCmd_ExistingIsError(s, arg, fault) ==
    LET initDir == IF arg = <<>> THEN GetDefaultBaseFolder ELSE arg
        s1 == initBaseDir(s, initDir)
        c  == initConfig(s1, initDir, FaultAt(fault, "config"))
        t  == initTemplate(c.fs, FaultAt(fault, "template"))
    IN IF Exists(s, initDir)
       THEN [fs |-> s, err |-> "EEXIST", initDir |-> initDir, step |-> "initBaseDir"]
       ELSE IF c.err # "nil"
       THEN [fs |-> c.fs, err |-> c.err, initDir |-> initDir, step |-> "initConfig"]
       ELSE IF t.err # "nil"
       THEN [fs |-> t.fs, err |-> t.err, initDir |-> initDir, step |-> "initTemplate"]
       ELSE [fs |-> t.fs, err |-> "nil", initDir |-> initDir, step |-> "done"]

\* InitCmd.Action.  arg is the first argument, empty when there is none.
InitCmd(s, arg, fault) ==
    LET initDir == IF arg = <<>> THEN GetDefaultBaseFolder ELSE arg
        s1 == initBaseDir(s, initDir)
        c  == initConfig(s1, initDir, FaultAt(fault, "config"))
        t  == initTemplate(c.fs, FaultAt(fault, "template"))
    IN IF c.err # "nil"
       THEN [fs |-> c.fs, err |-> c.err, initDir |-> initDir, step |-> "initConfig"]
       ELSE IF t.err # "nil"
       THEN [fs |-> t.fs, err |-> t.err, initDir |-> initDir, step |-> "initTemplate"]
       ELSE [fs |-> t.fs, err |-> "nil", initDir |-> initDir, step |-> "done"]

-----------------------------------------------------------------------------
(* The state machine: one action per invocation of the tool *)

\* what the user may pass to init: nothing, a directory that can be
\* created, a directory whose parent does not exist
InitArgs == { <<>>, <<SEP, "proj">>, <<SEP, "no", SEP, "sub">> }

\* what the user may pass to new: the title words
Titles ==
    { << <<"M", "y">>, <<"A", "D", "R">> >>,
      << <<"R", "&", "D">> >>,
      << <<" ", "a", " ", " ", "b", "\n">> >>,
      << >> }

InitFaults ==
    { NoFault,
      [at |-> "config",   kind |-> "open",  keep |-> 0],
      [at |-> "config",   kind |-> "short", keep |-> 0],
      [at |-> "config",   kind |-> "short", keep |-> 8],
      [at |-> "template", kind |-> "open",  keep |-> 0],
      [at |-> "template", kind |-> "short", keep |-> 0],
      [at |-> "template", kind |-> "short", keep |-> 3] }

NewFaults ==
    { NoFault,
      [at |-> "config", kind |-> "open",  keep |-> 0],
      [at |-> "config", kind |-> "short", keep |-> 0],
      [at |-> "crash",  kind |-> "none",  keep |-> 0],
      [at |-> "adr",    kind |-> "short", keep |-> 0],
      [at |-> "adr",    kind |-> "short", keep |-> 2] }

cur == [dirs |-> dirs, files |-> files]

FilesIn(s, dir) == {p \in DOMAIN s.files : PathDir(p) = dir}

\* no invocation is running beside the one the action models
NoProcs == <<>>

NoEpoch ==
    [inits |-> 0, base |-> <<>>, atInit |-> {}, assigned |-> <<>>,
     steps |-> <<>>, created |-> 0, failed |-> 0]

Init ==
    /\ dirs = {Root, Cwd, UserHomeDir}
    /\ files = [p \in {} |-> <<>>]
    /\ now = 0
    /\ nfaults = 0
    /\ pre = [dirs |-> {Root, Cwd, UserHomeDir}, files |-> [p \in {} |-> <<>>]]
    /\ last = [cmd |-> "none", args |-> <<>>, fault |-> NoFault, err |-> "nil",
               step |-> "none", number |-> 0, path |-> <<>>]
    /\ epoch = NoEpoch
    /\ procs = NoProcs

\* the injected fault struck: the command ended at the step the fault is
\* aimed at, with the error the fault produces
Struck(fault, r) ==
    CASE fault.at = "none"     -> TRUE
      [] fault.at = "config"   -> r.step \in {"initConfig", "updateConfig"} /\ r.err \in {"EACCES", "EIO"}
      [] fault.at = "template" -> r.step = "initTemplate" /\ r.err \in {"EACCES", "EIO"}
      [] fault.at = "crash"    -> r.step = "crash"
      [] fault.at = "adr"      -> r.step = "Execute" /\ r.err = "EIO"

\* an invocation is one event and the fault injected into it another; a
\* fault is injected only where it strikes
Injected(fault, r) ==
    /\ now + nfaults + (IF fault = NoFault THEN 1 ELSE 2) <= MaxEvents
    /\ Struck(fault, r)
    /\ nfaults' = IF fault = NoFault THEN nfaults ELSE nfaults + 1

\* adr init [arg]
RunInit(arg, fault) ==
    LET r == InitCmd(cur, arg, fault)
    IN /\ Injected(fault, r)
       /\ dirs' = r.fs.dirs
       /\ files' = r.fs.files
       /\ now' = now + 1
       /\ pre' = cur
       /\ last' = [cmd |-> "init", args |-> arg, fault |-> fault, err |-> r.err,
                   step |-> r.step, number |-> 0, path |-> r.initDir]
       /\ epoch' = IF r.step = "initConfig" THEN epoch
                   ELSE [inits |-> epoch.inits + 1, base |-> r.initDir,
                         atInit |-> FilesIn(r.fs, r.initDir),
                         assigned |-> <<>>, steps |-> <<>>, created |-> 0, failed |-> 0]
       /\ UNCHANGED procs

\* adr new [title words]
RunNew(args, fault) ==
    LET r == NewCmd(cur, args, now, fault)
    IN /\ Injected(fault, r)
       /\ dirs' = r.fs.dirs
       /\ files' = r.fs.files
       /\ now' = now + 1
       /\ pre' = cur
       /\ last' = [cmd |-> "new", args |-> args, fault |-> fault, err |-> r.err,
                   step |-> r.step, number |-> r.number, path |-> r.path]
       /\ epoch' = [epoch EXCEPT
                      !.assigned = IF r.number # 0 THEN Append(@, r.number) ELSE @,
                      !.steps    = Append(@, r.step),
                      !.created  = IF r.err = "nil" THEN @ + 1 ELSE @,
                      !.failed   = IF r.err # "nil" THEN @ + 1 ELSE @]
       /\ UNCHANGED procs

Next ==
    \/ \E arg \in InitArgs, fault \in InitFaults : RunInit(arg, fault)
    \/ \E args \in Titles, fault \in NewFaults : RunNew(args, fault)

Spec == Init /\ [][Next]_vars

-----------------------------------------------------------------------------
(* Vocabulary of the properties *)

\* the config as a read would return it, now and before the last command
persisted == getConfig(cur)
persistedBefore == getConfig(pre)

\* the number an ADR file name starts with
AdrNumber(p) ==
    LET base == PathBase(p)
        i    == FirstIndexFrom(base, "-", 1)
    IN Atoi(SubSeq(base, 1, i - 1))

\* the ADR files of the base directory chosen by the last init
AdrFiles == FilesIn(cur, epoch.base)
AdrNumbers == {AdrNumber(p) : p \in AdrFiles}

NoDuplicates(seq) == \A i, j \in 1..Len(seq) : i # j => seq[i] # seq[j]

IsInfix(sub, str) ==
    \E i \in 0..(Len(str) - Len(sub)) : SubSeq(str, i + 1, i + Len(sub)) = sub

\* the title of the spec: the words joined with single spaces, then trimmed
SpecTitle(args) == Trim(Join(args, <<" ">>), {" ", "\n", "\t"})

\* every space replaced by a hyphen
Hyphenated(str) == [i \in 1..Len(str) |-> IF str[i] = " " THEN "-" ELSE str[i]]

NewSucceeded == last.cmd = "new" /\ last.err = "nil"
InitSucceeded == last.cmd = "init" /\ last.err = "nil"

\* after an init, with a config that can be read
Initialised == epoch.inits > 0 /\ persisted.err = "nil"

-----------------------------------------------------------------------------
(* C1 *)

\* C1: starting from an init on a base directory without ADRs, after N
\* `new` invocations that all succeeded, the persisted current_id is N and
\* the base directory holds exactly N ADR files, numbered 1..N, one each.
C1_Monotonic ==
    (Initialised /\ epoch.atInit = {} /\ epoch.failed = 0)
      => /\ persisted.config.CurrentAdr = epoch.created
         /\ AdrNumbers = 1..epoch.created
         /\ Cardinality(AdrFiles) = epoch.created

C1_Witness ==
    /\ Initialised /\ epoch.atInit = {} /\ epoch.failed = 0
    /\ epoch.created = 2
    /\ persisted.config.CurrentAdr = 2
    /\ AdrNumbers = {1, 2}

-----------------------------------------------------------------------------
(* C2 *)

\* C2 as stated: after an init, whatever `new` invocations followed, the
\* persisted current_id equals the number of ADRs successfully created
\* since that init.
C2_CountsCreated ==
    Initialised => persisted.config.CurrentAdr = epoch.created

\* C2 as amended: after an init, the persisted current_id equals the number
\* of `new` invocations since that init that got past the config write,
\* which is at least the number of ADRs created; those invocations were
\* handed 1, 2, 3, ... in turn, so no number twice; and a `new` never
\* lowers the persisted current_id.
C2_CountsAssigned ==
    /\ Initialised =>
         /\ persisted.config.CurrentAdr = Len(epoch.assigned)
         /\ \A i \in 1..Len(epoch.assigned) : epoch.assigned[i] = i
         /\ epoch.created <= persisted.config.CurrentAdr
    /\ (last.cmd = "new" /\ persistedBefore.err = "nil" /\ persisted.err = "nil")
         => persisted.config.CurrentAdr >= persistedBefore.config.CurrentAdr

C2_Witness ==
    /\ Initialised
    /\ epoch.created = 1
    /\ epoch.failed = 1
    /\ persisted.config.CurrentAdr = 2
    /\ epoch.assigned = <<1, 2>>

-----------------------------------------------------------------------------
(* C3 *)

\* C3: when `new` invocations follow one another after an init on a base
\* directory without ADRs, and any of them may crash or fail between the
\* config write and the file write, no two of them are handed the same
\* number and no two ADR files of the base directory carry the same number:
\* a failure leaves a gap, never a collision.
C3_GapNotCollision ==
    epoch.inits > 0 =>
      /\ NoDuplicates(epoch.assigned)
      /\ epoch.atInit = {} =>
           \A p, q \in AdrFiles : p # q => AdrNumber(p) # AdrNumber(q)

\* a crash after the config write, then a successful new: number 1 is a gap
C3_Witness ==
    /\ epoch.atInit = {}
    /\ epoch.steps = <<"crash", "done">>
    /\ epoch.assigned = <<1, 2>>
    /\ AdrNumbers = {2}

-----------------------------------------------------------------------------
(* C4 *)

ConfigAbsent(s) == pathCfg.ConfigFilePath \notin DOMAIN s.files

\* C4: while no config file exists, reading the config fails with a
\* not-found error; and a `new` run in that state returns that error,
\* was handed no number and left the filesystem as it was: no config
\* file, no ADR file.
C4_NewBeforeInit ==
    /\ ConfigAbsent(cur) => persisted.err = "ENOENT"
    /\ (last.cmd = "new" /\ ConfigAbsent(pre)) =>
         /\ last.err = "ENOENT"
         /\ last.step = "getConfig"
         /\ last.number = 0
         /\ cur = pre
         /\ ConfigAbsent(cur)

C4_Witness ==
    /\ last.cmd = "new"
    /\ ConfigAbsent(pre)
    /\ pathCfg.ConfigFolderPath \in pre.dirs
    /\ last.err = "ENOENT"

-----------------------------------------------------------------------------
(* C5 *)

FreshHome == [dirs |-> {Root, Cwd, UserHomeDir}, files |-> [p \in {} |-> <<>>]]

HomeAdr == <<SEP, "home", SEP, "adr">>
HomeConfigJson == <<SEP, "home", SEP, ".adr", SEP, "config.json">>
HomeTemplateMd == <<SEP, "home", SEP, ".adr", SEP, "template.md">>

\* C5: init without argument on a fresh home directory, when it succeeds,
\* leaves the directory home/adr, home/.adr/config.json holding
\* {base_directory: home/adr, current_id: 0} and home/.adr/template.md
\* holding the built-in template.
C5_InitDefault ==
    (InitSucceeded /\ last.args = <<>> /\ pre = FreshHome) =>
      /\ HomeAdr \in dirs
      /\ DOMAIN files = {HomeConfigJson, HomeTemplateMd}
      /\ Unmarshal(files[HomeConfigJson]) =
           [config |-> [BaseDir |-> HomeAdr, CurrentAdr |-> 0], err |-> "nil"]
      /\ files[HomeTemplateMd] = DefaultTemplate

C5_Witness ==
    /\ InitSucceeded /\ last.args = <<>> /\ pre = FreshHome
    /\ HomeAdr \in dirs
    /\ HomeConfigJson \in DOMAIN files

-----------------------------------------------------------------------------
(* C6 *)

NewFailedAtFile == last.cmd = "new" /\ last.step \in {"Create", "Execute"}

AdvancedByOne ==
    /\ persistedBefore.err = "nil"
    /\ persisted.err = "nil"
    /\ persisted.config.CurrentAdr = persistedBefore.config.CurrentAdr + 1
    /\ last.number = persisted.config.CurrentAdr

\* C6 as stated: when `new` fails while creating or writing the ADR file,
\* the persisted current_id has advanced by exactly one and no ADR file
\* with that number is in the base directory.
C6_NoFileOnFailure ==
    NewFailedAtFile =>
      /\ AdvancedByOne
      /\ \A p \in FilesIn(cur, persisted.config.BaseDir) : AdrNumber(p) # last.number

\* what the last `new` would have written had nothing failed
FullRendering ==
    Execute(ParseFiles(pre, pathCfg.TemplateFilePath).nodes,
            [Title  |-> Join(last.args, <<" ">>),
             Date   |-> Format(TimeNow(now - 1)),
             Number |-> last.number,
             Status |-> PROPOSED],
            -1).out

\* C6 as amended: when `new` fails while creating or writing the ADR file,
\* the persisted current_id has advanced by exactly one.  If the creation
\* failed, the invocation created and changed no ADR file.  If the writing
\* failed, the file with that number is in the base directory and holds
\* only what was written before the failure.
C6_CounterAdvancedFileMayRemain ==
    NewFailedAtFile =>
      /\ AdvancedByOne
      /\ last.step = "Create" =>
           /\ DOMAIN files = DOMAIN pre.files
           /\ \A p \in DOMAIN files : p # pathCfg.ConfigFilePath => files[p] = pre.files[p]
      /\ last.step = "Execute" =>
           /\ last.path \in FilesIn(cur, persisted.config.BaseDir)
           /\ AdrNumber(last.path) = last.number
           /\ HasPrefix(FullRendering, files[last.path])
           /\ files[last.path] # FullRendering

\* the write failed after the heading had begun
C6_Witness ==
    /\ NewFailedAtFile
    /\ last.step = "Execute"
    /\ last.path \in DOMAIN files
    /\ files[last.path] = <<"\n", "# ", "1">>

-----------------------------------------------------------------------------
(* C7 *)

\* C7 as stated: every successful `new` makes the set of files one larger.
C7_OneMoreFile ==
    NewSucceeded => Cardinality(DOMAIN files) = Cardinality(DOMAIN pre.files) + 1

\* C7 as amended: every successful `new` writes exactly one file, the ADR
\* file at the path it computed, and touches no other ADR file: the set of
\* files grows by exactly one when nothing was at that path, and keeps its
\* size, the existing file being rewritten, when a file was there (as after
\* init was re-run on a workspace that already holds ADRs).
C7_OneFileWritten ==
    NewSucceeded =>
      /\ DOMAIN files = DOMAIN pre.files \cup {last.path}
      /\ files[last.path] = FullRendering
      /\ \A p \in DOMAIN pre.files :
           p \notin {last.path, pathCfg.ConfigFilePath} => files[p] = pre.files[p]
      /\ Cardinality(DOMAIN files) =
           Cardinality(DOMAIN pre.files) + (IF last.path \in DOMAIN pre.files THEN 0 ELSE 1)

\* a successful new that rewrote an ADR file of an earlier epoch
C7_Witness ==
    /\ NewSucceeded
    /\ epoch.inits = 2
    /\ last.path \in DOMAIN pre.files
    /\ files[last.path] # pre.files[last.path]
    /\ Cardinality(DOMAIN files) = Cardinality(DOMAIN pre.files)

-----------------------------------------------------------------------------
(* C8 *)

MyAdrArgs == << <<"M", "y">>, <<"A", "D", "R">> >>

\* C8: a successful `new` creates its file at base_directory/<n>-<t>.md,
\* n being the persisted current_id after the call in plain decimal and t
\* the title (words joined by spaces, trimmed) with every space replaced by
\* a hyphen, letter case kept: "My ADR" as ADR 1 of /home/adr is
\* /home/adr/1-My-ADR.md.
C8_FileName ==
    NewSucceeded =>
      /\ persisted.err = "nil"
      /\ last.path \in DOMAIN files
      /\ last.path = persisted.config.BaseDir \o <<SEP>>
                     \o Itoa(persisted.config.CurrentAdr) \o <<"-">>
                     \o Hyphenated(SpecTitle(last.args)) \o <<".", "m", "d">>
      /\ (last.args = MyAdrArgs /\ last.number = 1 /\ persisted.config.BaseDir = HomeAdr)
           => last.path = <<SEP, "home", SEP, "adr", SEP, "1", "-", "M", "y", "-", "A", "D", "R", ".", "m", "d">>

\* the second ADR, with a title that needs trimming and has a double space
C8_Witness ==
    /\ NewSucceeded
    /\ last.number = 2
    /\ last.args = << <<" ", "a", " ", " ", "b", "\n">> >>
    /\ PathBase(last.path) = <<"2", "-", "a", "-", "-", "b", ".", "m", "d">>

-----------------------------------------------------------------------------
(* C9 *)

\* C9: with the default template, the file of a successful `new` contains
\* the heading line "# <n>. <title>", n being the number in the file name and
\* the persisted current_id after the call, and the status section with
\* the value Proposed.
C9_HeadingAndStatus ==
    (NewSucceeded /\ pre.files[pathCfg.TemplateFilePath] = DefaultTemplate) =>
      /\ AdrNumber(last.path) = persisted.config.CurrentAdr
      /\ IsInfix(<<"\n", "# ">> \o Itoa(persisted.config.CurrentAdr) \o <<". ">>
                 \o SpecTitle(last.args) \o <<"\n">>,
                 files[last.path])
      /\ IsInfix(<<"## Status", "\n", "======", "\n", "Proposed", "\n">>, files[last.path])
      /\ \A st \in {ACCEPTED, DEPRECATED, SUPERSEDED} : ~IsInfix(<<st>>, files[last.path])

-----------------------------------------------------------------------------
(* C10 *)

ChosenDir == IF last.args = <<>> THEN HomeAdr ELSE last.args

\* C10: whatever the state before (any current_id, any template content,
\* ADR files or none), an init that succeeds leaves the config
\* {base_directory: the chosen directory, current_id: 0} and the template
\* file equal to the built-in template.
C10_InitResets ==
    InitSucceeded =>
      /\ persisted = [config |-> [BaseDir |-> ChosenDir, CurrentAdr |-> 0], err |-> "nil"]
      /\ files[pathCfg.TemplateFilePath] = DefaultTemplate

\* init re-run over a counter at 1, a template that is not the built-in one
\* and a base directory holding an ADR
C10_Witness ==
    /\ InitSucceeded
    /\ persistedBefore.err = "nil"
    /\ persistedBefore.config.CurrentAdr = 1
    /\ pathCfg.TemplateFilePath \in DOMAIN pre.files
    /\ pre.files[pathCfg.TemplateFilePath] # DefaultTemplate
    /\ FilesIn(pre, ChosenDir) # {}

-----------------------------------------------------------------------------
(* C11 *)

\* C11: an init whose base directory is already there, and whose writes
\* the filesystem accepts, returns success: it creates no directory but the
\* config folder, writes the config {base_directory: the chosen directory,
\* current_id: 0} and installs the built-in template.
C11_ExistingBaseDir ==
    (last.cmd = "init" /\ last.fault = NoFault /\ ChosenDir \in pre.dirs) =>
      /\ last.err = "nil"
      /\ dirs = pre.dirs \cup {pathCfg.ConfigFolderPath}
      /\ persisted = [config |-> [BaseDir |-> ChosenDir, CurrentAdr |-> 0], err |-> "nil"]
      /\ files[pathCfg.TemplateFilePath] = DefaultTemplate

\* the base directory was there and no config file yet
C11_Witness ==
    /\ InitSucceeded
    /\ last.fault = NoFault
    /\ ChosenDir \in pre.dirs
    /\ ConfigAbsent(pre)
    /\ ~ConfigAbsent(cur)

-----------------------------------------------------------------------------
(* The helpers called one at a time, as the unit tests call them *)

\* Model bound: the number of helper calls in a behaviour
MaxCalls == 2

\* directories handed to initBaseDir
HelperDirs == { GetDefaultBaseFolder, <<SEP, "proj">>, <<SEP, "no", SEP, "sub">> }

\* config values handed to initConfig and updateConfig: a plain path, one
\* with a quote and a backslash, one with an ampersand and a newline, one
\* with a byte that is not UTF-8, the empty string
BaseDirs ==
    { <<SEP, "proj">>,
      <<SEP, "a", "\"", "b", "\\", "c">>,
      <<SEP, "R", "&", "D", "\n">>,
      <<SEP, "x", InvalidByte>>,
      <<>> }

CurrentAdrs == {0, 7, 12, -1}

\* home directories handed to NewPathConfig
Homes == { Root, <<SEP, "home">>, <<SEP, "home", SEP, "u">> }

InitialisedHome == InitCmd(FreshHome, <<>>, NoFault).fs

InitHelpers ==
    /\ \E s \in {FreshHome, InitialisedHome} :
          /\ dirs = s.dirs
          /\ files = s.files
          /\ pre = s
    /\ now = 0
    /\ nfaults = 0
    /\ last = [cmd |-> "none", args |-> <<>>, fault |-> NoFault, err |-> "nil",
               step |-> "none", number |-> 0, path |-> <<>>]
    /\ epoch = NoEpoch
    /\ procs = NoProcs

\* a helper call: what it was given, what it returned, the filesystem it left
Called(name, args, number, r) ==
    /\ now < MaxCalls
    /\ dirs' = r.fs.dirs
    /\ files' = r.fs.files
    /\ now' = now + 1
    /\ pre' = cur
    /\ last' = [cmd |-> name, args |-> args, fault |-> NoFault, err |-> r.err,
                step |-> "done", number |-> number, path |-> <<>>]
    /\ UNCHANGED <<nfaults, epoch, procs>>

CallInitBaseDir(baseDir) ==
    Called("initBaseDir", baseDir, 0, [fs |-> initBaseDir(cur, baseDir), err |-> "nil"])

CallInitConfig(baseDir) ==
    Called("initConfig", baseDir, 0, initConfig(cur, baseDir, NoFault))

CallUpdateConfig(config) ==
    Called("updateConfig", config.BaseDir, config.CurrentAdr, updateConfig(cur, config, NoFault))

CallNewPathConfig(home) ==
    Called("NewPathConfig", home, 0, [fs |-> cur, err |-> "nil"])

NextHelpers ==
    \/ \E baseDir \in HelperDirs : CallInitBaseDir(baseDir)
    \/ \E baseDir \in BaseDirs : CallInitConfig(baseDir)
    \/ \E baseDir \in BaseDirs, n \in CurrentAdrs :
          CallUpdateConfig([BaseDir |-> baseDir, CurrentAdr |-> n])
    \/ \E home \in Homes : CallNewPathConfig(home)

SpecHelpers == InitHelpers /\ [][NextHelpers]_vars

-----------------------------------------------------------------------------
(* C12 *)

\* C12: after initBaseDir was called on a path, calling it on that path
\* again changes nothing, the filesystem after two calls being the
\* filesystem after one; and a call on a path where something already is
\* leaves the filesystem as it was.  (initBaseDir returns no error value.)
C12_InitBaseDirIdempotent ==
    last.cmd = "initBaseDir" =>
      /\ initBaseDir(cur, last.args) = cur
      /\ Exists(pre, last.args) => cur = pre
      /\ last.err = "nil"

\* the first call created the directory
C12_Witness ==
    /\ last.cmd = "initBaseDir"
    /\ last.args \in dirs
    /\ last.args \notin pre.dirs
    /\ initBaseDir(cur, last.args) = cur

-----------------------------------------------------------------------------
(* C13 *)

\* C13: an init with a directory argument that succeeds has stored the
\* argument as base_directory and created that directory, and the only
\* files it has added are config.json and template.md under home/.adr.
C13_ArgOnlyOverridesBase ==
    (InitSucceeded /\ last.args # <<>>) =>
      /\ persisted.err = "nil"
      /\ persisted.config.BaseDir = last.args
      /\ last.args \in dirs
      /\ {HomeConfigJson, HomeTemplateMd} \subseteq DOMAIN files
      /\ (DOMAIN files) \ (DOMAIN pre.files) \subseteq {HomeConfigJson, HomeTemplateMd}

-----------------------------------------------------------------------------
(* C14 *)

\* the base directory was not there and is not there after the command
BaseDirNotCreated == ~Exists(pre, ChosenDir) /\ ~Exists(cur, ChosenDir)

\* C14: an init in which the creation of the base directory, the config
\* write or the template write failed returns an error.
C14_InitFailsOnAnyStep ==
    last.cmd = "init" =>
      /\ BaseDirNotCreated => last.err # "nil"
      /\ last.fault.at = "config" => last.err # "nil"
      /\ last.fault.at = "template" => last.err # "nil"

-----------------------------------------------------------------------------
(* C15 *)

\* the config value the last helper call was given, and whether it wrote it
Written == [BaseDir |-> last.args, CurrentAdr |-> last.number]
ConfigWritten == last.cmd \in {"initConfig", "updateConfig"} /\ last.err = "nil"

IsUTF8(str) == \A i \in 1..Len(str) : str[i] # InvalidByte

\* C15 as stated: after initConfig or updateConfig wrote a config value,
\* whatever the value, the config file holds that value's document and
\* nothing else, and getConfig returns an equal value.
C15_RoundTripEveryValue ==
    ConfigWritten =>
      /\ files[pathCfg.ConfigFilePath] = MarshalIndent(Written)
      /\ persisted = [config |-> Written, err |-> "nil"]

\* C15 as amended: after initConfig or updateConfig wrote a config value,
\* the config file holds that value's document and nothing else, and
\* getConfig succeeds and returns the current_id written; it returns an
\* equal base_directory when the base_directory written is UTF-8 text, and
\* otherwise the base_directory with U+FFFD in place of every byte that is
\* not UTF-8.
C15_RoundTripText ==
    ConfigWritten =>
      /\ files[pathCfg.ConfigFilePath] = MarshalIndent(Written)
      /\ persisted.err = "nil"
      /\ persisted.config.CurrentAdr = Written.CurrentAdr
      /\ IsUTF8(Written.BaseDir) => persisted.config = Written
      /\ persisted.config.BaseDir =
           [i \in 1..Len(Written.BaseDir) |->
              IF Written.BaseDir[i] = InvalidByte THEN ReplacementChar ELSE Written.BaseDir[i]]

\* a base_directory with a quote and a backslash, and a two-digit
\* current_id, written over the config of an init
C15_Witness ==
    /\ ConfigWritten
    /\ last.cmd = "updateConfig"
    /\ Written = [BaseDir |-> <<SEP, "a", "\"", "b", "\\", "c">>, CurrentAdr |-> 12]
    /\ persisted.config = Written
    /\ pre.files[pathCfg.ConfigFilePath] = InitialisedHome.files[pathCfg.ConfigFilePath]

-----------------------------------------------------------------------------
(* Two `new` invocations running at the same time.  Each is a process that *)
(* takes the steps of NewCmd.Action one system call at a time: the read of  *)
(* the config, the open of the config file (which truncates it), the write  *)
(* into it, the creation of the ADR file, the write into it.  Both run      *)
(* within the same second.  A process writes the config it computed from    *)
(* its own read; when two processes are both between open and write, they   *)
(* read the same config, so they write the same bytes.                      *)

Procs == {1, 2}

\* the home after adr init and one adr new
AfterOneNew == NewCmd(InitialisedHome, MyAdrArgs, 0, NoFault).fs

InitConcurrent ==
    /\ \E s \in {InitialisedHome, AfterOneNew} :
          /\ dirs = s.dirs
          /\ files = s.files
          /\ pre = s
    /\ now = 0
    /\ nfaults = 0
    /\ last = [cmd |-> "none", args |-> <<>>, fault |-> NoFault, err |-> "nil",
               step |-> "none", number |-> 0, path |-> <<>>]
    /\ epoch = NoEpoch
    /\ procs \in [Procs -> {[pc |-> "getConfig", args |-> t, read |-> 0,
                              config |-> ZeroConfig, number |-> 0,
                              path |-> <<>>, err |-> "nil"] : t \in Titles}]

\* a step of process p: the filesystem it leaves and the process after it
Stepped(p, s, proc) ==
    /\ dirs' = s.dirs
    /\ files' = s.files
    /\ procs' = [procs EXCEPT ![p] = proc]
    /\ UNCHANGED <<now, nfaults, pre, last, epoch>>

Failed(proc, err) == [proc EXCEPT !.pc = "failed", !.err = err]

\* getConfig, without the increment that follows it
ConcGetConfig_NoIncrement(p) ==
    /\ procs[p].pc = "getConfig"
    /\ LET g == getConfig(cur)
       IN Stepped(p, cur,
                  IF g.err # "nil" THEN Failed(procs[p], g.err)
                  ELSE [procs[p] EXCEPT !.pc = "updateConfig",
                                        !.read = g.config.CurrentAdr,
                                        !.config = g.config,
                                        !.number = g.config.CurrentAdr])

\* currentConfig, err := getConfig(); currentConfig.CurrentAdr++
ConcGetConfig(p) ==
    /\ procs[p].pc = "getConfig"
    /\ LET g == getConfig(cur)
           currentConfig == [g.config EXCEPT !.CurrentAdr = @ + 1]
       IN Stepped(p, cur,
                  IF g.err # "nil" THEN Failed(procs[p], g.err)
                  ELSE [procs[p] EXCEPT !.pc = "updateConfig",
                                        !.read = g.config.CurrentAdr,
                                        !.config = currentConfig,
                                        !.number = currentConfig.CurrentAdr])

\* updateConfig, first half: os.WriteFile opens the config file, which
\* truncates it
ConcOpenConfig(p) ==
    /\ procs[p].pc = "updateConfig"
    /\ LET f == Create(cur, pathCfg.ConfigFilePath)
       IN Stepped(p, f.fs,
                  IF f.err # "nil" THEN Failed(procs[p], f.err)
                  ELSE [procs[p] EXCEPT !.pc = "write"])

\* updateConfig, second half: os.WriteFile writes the document
ConcWriteConfig(p) ==
    /\ procs[p].pc = "write"
    /\ LET u == updateConfig(cur, procs[p].config, NoFault)
       IN Stepped(p, u.fs,
                  IF u.err # "nil" THEN Failed(procs[p], u.err)
                  ELSE [procs[p] EXCEPT !.pc = "newAdr"])

\* newAdr up to os.Create
ConcCreate(p) ==
    /\ procs[p].pc = "newAdr"
    /\ LET title == Join(procs[p].args, <<" ">>)
           tmpl == ParseFiles(cur, pathCfg.TemplateFilePath)
           adrFullPath == PathJoin(procs[p].config.BaseDir,
                                   adrFileName(procs[p].config.CurrentAdr, title))
           f == Create(cur, adrFullPath)
       IN IF tmpl.err # "nil" THEN Stepped(p, cur, Failed(procs[p], tmpl.err))
          ELSE IF f.err # "nil" THEN Stepped(p, cur, Failed(procs[p], f.err))
          ELSE Stepped(p, f.fs, [procs[p] EXCEPT !.pc = "Execute", !.path = adrFullPath])

\* newAdr from tmpl.Execute on
ConcExecute(p) ==
    /\ procs[p].pc = "Execute"
    /\ LET adr == [Title  |-> Join(procs[p].args, <<" ">>),
                   Date   |-> Format(TimeNow(now)),
                   Number |-> procs[p].config.CurrentAdr,
                   Status |-> PROPOSED]
           tmpl == ParseFiles(cur, pathCfg.TemplateFilePath)
           x == Execute(tmpl.nodes, adr, -1)
       IN Stepped(p, SetFile(cur, procs[p].path, x.out),
                  IF x.err # "nil" THEN Failed(procs[p], x.err)
                  ELSE [procs[p] EXCEPT !.pc = "done"])

NextConcurrent ==
    \E p \in Procs :
       \/ ConcGetConfig(p)
       \/ ConcOpenConfig(p)
       \/ ConcWriteConfig(p)
       \/ ConcCreate(p)
       \/ ConcExecute(p)

SpecConcurrent == InitConcurrent /\ [][NextConcurrent]_vars

-----------------------------------------------------------------------------
(* C16 *)

BothDone == procs # NoProcs /\ \A p \in Procs : procs[p].pc = "done"

\* C16: when two `new` invocations run at the same time and both read the
\* config before either wrote it, and both complete without error, then
\* both were given the same ADR number and the persisted current_id is one
\* above the value they read: it advanced by one, not by two.  Nothing
\* keeps the two reads from both coming first.
C16_LostUpdate ==
    (BothDone /\ procs[1].read = procs[2].read) =>
      /\ procs[1].number = procs[2].number
      /\ procs[1].number = procs[1].read + 1
      /\ persisted.err = "nil"
      /\ persisted.config.CurrentAdr = procs[1].read + 1

\* both succeeded, with different titles: two ADR files with the same
\* number, and a counter that advanced by one
C16_Witness ==
    /\ BothDone
    /\ procs[1].err = "nil" /\ procs[2].err = "nil"
    /\ procs[1].read = 1 /\ procs[2].read = 1
    /\ procs[1].number = 2 /\ procs[2].number = 2
    /\ persisted.config.CurrentAdr = 2
    /\ procs[1].path # procs[2].path
    /\ {procs[1].path, procs[2].path} \subseteq DOMAIN files
    /\ AdrNumber(procs[1].path) = AdrNumber(procs[2].path)

-----------------------------------------------------------------------------
(* C17 *)

\* the config file is there and does not hold a JSON document
ConfigCorrupt(s) ==
    /\ ~ConfigAbsent(s)
    /\ Unmarshal(s.files[pathCfg.ConfigFilePath]).err # "nil"

\* C17: while the config file exists and is not parseable JSON, reading the
\* config fails with the parse error; and a `new` run in that state
\* returns that error, was handed no number and left the filesystem as it
\* was: the config file unchanged, no ADR file created.
C17_MalformedConfig ==
    /\ ConfigCorrupt(cur) => persisted.err = "EJSON"
    /\ (last.cmd = "new" /\ ConfigCorrupt(pre)) =>
         /\ last.err = "EJSON"
         /\ last.step = "getConfig"
         /\ last.number = 0
         /\ cur = pre

\* a new over a config document that was cut short
C17_Witness ==
    /\ last.cmd = "new"
    /\ ConfigCorrupt(pre)
    /\ pre.files[pathCfg.ConfigFilePath] # <<>>
    /\ last.err = "EJSON"
    /\ cur = pre

-----------------------------------------------------------------------------
(* C18 *)

\* C18: with the default template, the file of a successful `new` has the
\* heading line "# <n>. <title>", the title being the text of the Title
\* field (the words joined with single spaces), character for character.
C18_TitleVerbatim ==
    (NewSucceeded /\ pre.files[pathCfg.TemplateFilePath] = DefaultTemplate) =>
      IsInfix(<<"\n", "# ">> \o Itoa(last.number) \o <<". ">>
              \o Join(last.args, <<" ">>) \o <<"\n", "======">>,
              files[last.path])

-----------------------------------------------------------------------------
(* C19 *)

\* the path names the entry called name of the directory dir
EntryOf(path, dir, name) == PathDir(path) = dir /\ PathBase(path) = name

\* C19: for every home directory, NewPathConfig gives the config folder as
\* the entry .adr of home, the config file as the entry config.json and
\* the template file as the entry template.md of the config folder, and
\* the default base folder as the entry adr of home; and computing them
\* leaves the filesystem as it was.
C19_PathResolution ==
    last.cmd = "NewPathConfig" =>
      LET home == last.args
          cfg  == NewPathConfig(home)
      IN /\ cfg.UserHomeDir = home
         /\ EntryOf(cfg.ConfigFolderPath, home, <<".adr">>)
         /\ EntryOf(cfg.ConfigFilePath, cfg.ConfigFolderPath, <<"config.json">>)
         /\ EntryOf(cfg.TemplateFilePath, cfg.ConfigFolderPath, <<"template.md">>)
         /\ EntryOf(cfg.DefaultBaseFolder, home, <<"adr">>)
         /\ home = <<SEP, "home">> =>
              /\ cfg.ConfigFilePath = HomeConfigJson
              /\ cfg.TemplateFilePath = HomeTemplateMd
              /\ cfg.DefaultBaseFolder = HomeAdr
         /\ cur = pre

\* computed for another home, on a home that holds a config
C19_Witness ==
    /\ last.cmd = "NewPathConfig"
    /\ last.args = <<SEP, "home", SEP, "u">>
    /\ NewPathConfig(last.args).TemplateFilePath =
         <<SEP, "home", SEP, "u", SEP, ".adr", SEP, "template.md">>
    /\ ~ConfigAbsent(cur)
    /\ cur = pre

-----------------------------------------------------------------------------
(* C20 *)

\* the last command created or changed a file other than the config file
OtherFileTouched ==
    \E p \in (DOMAIN files) \ {pathCfg.ConfigFilePath} :
       p \notin DOMAIN pre.files \/ files[p] # pre.files[p]

\* C20: a `new` whose config write failed returns the error and has
\* created or changed no ADR file; a `new` that stopped right after the
\* config write has left the incremented current_id and no ADR file; and a
\* `new` that created or changed an ADR file has the config with the
\* incremented current_id on disk.
C20_ConfigWriteFirst ==
    last.cmd = "new" =>
      /\ last.step = "updateConfig" =>
           /\ last.err # "nil"
           /\ ~OtherFileTouched
      /\ last.step = "crash" =>
           /\ AdvancedByOne
           /\ ~OtherFileTouched
      /\ OtherFileTouched =>
           /\ persistedBefore.err = "nil"
           /\ files[pathCfg.ConfigFilePath] =
                MarshalIndent([persistedBefore.config EXCEPT !.CurrentAdr = @ + 1])

\* the config write was refused on an initialised home
C20_Witness ==
    /\ last.cmd = "new"
    /\ last.step = "updateConfig"
    /\ last.err = "EACCES"
    /\ persistedBefore.err = "nil"
    /\ persisted = persistedBefore
    /\ ~OtherFileTouched
    /\ persisted.config.BaseDir \in dirs

-----------------------------------------------------------------------------
(* C21 *)

NewReturnedError == last.cmd = "new" /\ last.err # "nil" /\ last.step # "crash"

\* C21 as stated: a `new` that returned an error, at whatever step, has
\* created or changed no ADR file.
C21_NoFileOnError ==
    NewReturnedError => ~OtherFileTouched

\* C21 as amended: a `new` that returned an error from the config read,
\* the config write, the template load or the file creation has created or
\* changed no ADR file; one that returned an error from the template
\* execution has left the file at the path it computed, in the base
\* directory, holding only what was written before the failure, and has
\* touched no other ADR file.
C21_OnlyExecuteLeavesFile ==
    NewReturnedError =>
      /\ last.step \in {"getConfig", "updateConfig", "ParseFiles", "Create", "Execute"}
      /\ last.step # "Execute" => ~OtherFileTouched
      /\ last.step = "Execute" =>
           /\ PathDir(last.path) = persisted.config.BaseDir
           /\ HasPrefix(FullRendering, files[last.path])
           /\ files[last.path] # FullRendering
           /\ \A p \in (DOMAIN files) \ {pathCfg.ConfigFilePath, last.path} :
                p \in DOMAIN pre.files /\ files[p] = pre.files[p]

\* the template could not be parsed: the counter advanced, no file
C21_Witness ==
    /\ NewReturnedError
    /\ last.step = "ParseFiles"
    /\ last.err = "ETEMPLATE"
    /\ AdvancedByOne
    /\ ~OtherFileTouched

-----------------------------------------------------------------------------
(* C22 *)

\* the heading line of ADR n with the given title text, as the renderer
\* writes that text
HeadingLine(n, title) ==
    <<"\n", "# ">> \o Itoa(n) \o <<". ">> \o HTMLEscape(title) \o <<"\n", "======">>

\* C22: with the default template, a successful `new` uses one title, the
\* words joined with single spaces and trimmed of leading and trailing
\* spaces, newlines and tabs, both in the file name and in the heading of
\* the file.
C22_TrimmedTitleBoth ==
    (NewSucceeded /\ pre.files[pathCfg.TemplateFilePath] = DefaultTemplate) =>
      /\ PathBase(last.path) =
           Itoa(last.number) \o <<"-">> \o Hyphenated(SpecTitle(last.args)) \o <<".", "m", "d">>
      /\ IsInfix(HeadingLine(last.number, SpecTitle(last.args)), files[last.path])

-----------------------------------------------------------------------------
(* C23 *)

TemplateAbsent(s) == pathCfg.TemplateFilePath \notin DOMAIN s.files

\* C23: a `new` run with a readable config and no template file, and with
\* its config write accepted, returns the not-found error of the template
\* load and creates no ADR file, and the persisted current_id is one above
\* what it was.
C23_TemplateMissing ==
    (last.cmd = "new" /\ last.fault = NoFault
       /\ persistedBefore.err = "nil" /\ TemplateAbsent(pre)) =>
      /\ last.err = "ENOENT"
      /\ last.step = "ParseFiles"
      /\ ~OtherFileTouched
      /\ TemplateAbsent(cur)
      /\ AdvancedByOne

\* the init before could not write the template
C23_Witness ==
    /\ last.cmd = "new" /\ last.fault = NoFault
    /\ persistedBefore.err = "nil" /\ TemplateAbsent(pre)
    /\ persistedBefore.config.CurrentAdr = 0
    /\ persisted.config.CurrentAdr = 1
    /\ last.err = "ENOENT"
    /\ FilesIn(cur, persisted.config.BaseDir) = {}

-----------------------------------------------------------------------------
(* C24 *)

FolderIn(s) == pathCfg.ConfigFolderPath \in s.dirs

-----------------------------------------------------------------------------
(* C25 *)

\* the file at path p is the same before and after the last command
SameFile(p) ==
    /\ (p \in DOMAIN files) = (p \in DOMAIN pre.files)
    /\ p \in DOMAIN files => files[p] = pre.files[p]

\* the config document with the counter one above the one read before
IncrementedDocument ==
    MarshalIndent([persistedBefore.config EXCEPT !.CurrentAdr = @ + 1])

\* the last command touched no file but the config file and at most the
\* ADR file at the path it computed, in the base directory, and made no
\* directory
OnlyAdrBesideConfig ==
    /\ dirs = pre.dirs
    /\ SameFile(pathCfg.TemplateFilePath)
    /\ \A p \in (DOMAIN files \cup DOMAIN pre.files) \ {pathCfg.ConfigFilePath} :
         ~SameFile(p) => (p = last.path /\ PathDir(p) = persistedBefore.config.BaseDir)

\* C25 as stated: a `new`, successful or not, leaves the template file as
\* it was, and the config file either as it was or holding the config read
\* before with current_id one higher and the same base_directory; beside
\* that it has at most written one ADR file in the base directory.
C25_OnlyCounterAndAdr ==
    last.cmd = "new" =>
      /\ OnlyAdrBesideConfig
      /\ \/ SameFile(pathCfg.ConfigFilePath)
         \/ persistedBefore.err = "nil" /\ files[pathCfg.ConfigFilePath] = IncrementedDocument

\* C25 as amended: as stated, except that a `new` whose config write
\* failed may leave the config file cut short, holding only a beginning of
\* the document it was writing.
C25_ConfigMayBeCutShort ==
    last.cmd = "new" =>
      /\ OnlyAdrBesideConfig
      /\ \/ SameFile(pathCfg.ConfigFilePath)
         \/ persistedBefore.err = "nil" /\ files[pathCfg.ConfigFilePath] = IncrementedDocument
         \/ /\ last.step = "updateConfig"
            /\ last.err # "nil"
            /\ persistedBefore.err = "nil"
            /\ HasPrefix(IncrementedDocument, files[pathCfg.ConfigFilePath])
            /\ persisted.err # "nil"

\* a successful new on a base directory given to init: template and
\* base_directory as before, counter and one file more
C25_Witness ==
    /\ NewSucceeded
    /\ persistedBefore.err = "nil"
    /\ persistedBefore.config.BaseDir = <<SEP, "proj">>
    /\ persisted.config = [BaseDir |-> <<SEP, "proj">>, CurrentAdr |-> 1]
    /\ files[pathCfg.TemplateFilePath] = pre.files[pathCfg.TemplateFilePath]
    /\ DOMAIN files = DOMAIN pre.files \cup {last.path}
    /\ last.path \notin DOMAIN pre.files

-----------------------------------------------------------------------------
(* C26 *)

\* C26: an init has dealt with the base directory before anything else, so
\* the base directory is there whenever it could be created, whatever
\* failed later.  An init whose config write failed returns the error and
\* has left the template file as it was.  An init whose template write
\* failed returns the error and has left the config {base_directory: the
\* chosen directory, current_id: 0}.
C26_InitOrder ==
    last.cmd = "init" =>
      /\ PathDir(ChosenDir) \in pre.dirs => ChosenDir \in dirs
      /\ last.step = "initConfig" =>
           /\ last.err # "nil"
           /\ SameFile(pathCfg.TemplateFilePath)
      /\ last.step = "initTemplate" =>
           /\ last.err # "nil"
           /\ persisted = [config |-> [BaseDir |-> ChosenDir, CurrentAdr |-> 0], err |-> "nil"]

\* the template write failed on an init re-run over a counter at 1
C26_Witness ==
    /\ last.cmd = "init"
    /\ last.step = "initTemplate"
    /\ last.err # "nil"
    /\ persistedBefore.err = "nil"
    /\ persistedBefore.config.CurrentAdr = 1
    /\ persisted.config.CurrentAdr = 0

-----------------------------------------------------------------------------
(* C27 *)

\* the ADR files created in the base directory since the last init
CreatedSinceInit == AdrFiles \ epoch.atInit

\* the last command was a new that wrote an ADR file, whole or in part
NewWroteFile == last.cmd = "new" /\ last.step \in {"Execute", "done"}

\* C27: between one init and the next, whatever failed in the `new`
\* invocations in between: every ADR file created since the init has a
\* number between 1 and the persisted current_id, so there are never more
\* of them than current_id; a `new` that wrote a file wrote it under a
\* number in that range and over no file an earlier `new` created since the
\* init; and while the config cannot be read a `new` touches no ADR file.
C27_FilesWithinCounter ==
    epoch.inits > 0 =>
      /\ persisted.err = "nil" =>
           /\ \A p \in CreatedSinceInit :
                 AdrNumber(p) \in 1..persisted.config.CurrentAdr
           /\ Cardinality(CreatedSinceInit) <= persisted.config.CurrentAdr
      /\ NewWroteFile =>
           /\ persisted.err = "nil"
           /\ last.number \in 1..persisted.config.CurrentAdr
           /\ AdrNumber(last.path) = last.number
           /\ last.path \in DOMAIN pre.files => last.path \in epoch.atInit
      /\ (last.cmd = "new" /\ persisted.err # "nil") =>
           \A p \in FilesIn(cur, epoch.base) \cup FilesIn(pre, epoch.base) : SameFile(p)

\* a new that failed and a new that succeeded since the init: one file, and
\* the counter ahead of the number of files
C27_Witness ==
    /\ epoch.inits > 0
    /\ epoch.failed >= 1
    /\ NewSucceeded
    /\ persisted.err = "nil"
    /\ persisted.config.CurrentAdr = 2
    /\ Cardinality(CreatedSinceInit) = 1
    /\ \A p \in CreatedSinceInit : AdrNumber(p) = 2

-----------------------------------------------------------------------------
(* C28 *)

\* the file the first ADR with the title of the last command goes to
FirstAdrPath ==
    PathJoin(persistedBefore.config.BaseDir, adrFileName(1, Join(last.args, <<" ">>)))

\* before the last command: the counter was at 0 and the base directory
\* already held ADR 1 with the title of the command, as after init was
\* re-run on a base directory in use
ReinitialisedOverFirstAdr ==
    /\ last.cmd = "new"
    /\ last.fault = NoFault
    /\ persistedBefore.err = "nil"
    /\ persistedBefore.config.CurrentAdr = 0
    /\ ParseFiles(pre, pathCfg.TemplateFilePath).err = "nil"
    /\ FirstAdrPath \in DOMAIN pre.files

\* C28: when init was re-run on a base directory that already holds ADR 1
\* with title T, the next `new` with title T succeeds with number 1 and
\* rewrites the file 1-T.md from its beginning: the file holds the new
\* rendering and nothing of what it held, and no file is added.
C28_ReinitOverwrites ==
    ReinitialisedOverFirstAdr =>
      /\ last.err = "nil"
      /\ last.number = 1
      /\ persisted = [config |-> [BaseDir |-> persistedBefore.config.BaseDir,
                                  CurrentAdr |-> 1],
                      err |-> "nil"]
      /\ last.path = FirstAdrPath
      /\ files[FirstAdrPath] = FullRendering
      /\ DOMAIN files = DOMAIN pre.files

\* init, new T, init on the same directory, new T: the file of the first
\* new was replaced and its content is gone
C28_Witness ==
    /\ ReinitialisedOverFirstAdr
    /\ epoch.inits = 2
    /\ last.args # <<>>
    /\ FirstAdrPath \in epoch.atInit
    /\ files[FirstAdrPath] # pre.files[FirstAdrPath]
    /\ Cardinality(AdrFiles) = 1

-----------------------------------------------------------------------------
(* C29 *)

\* the last command was a new without title words, run without a fault on
\* a readable config, a template that loads and a base directory that is
\* there
NewWithoutTitle ==
    /\ last.cmd = "new"
    /\ last.args = <<>>
    /\ last.fault = NoFault
    /\ persistedBefore.err = "nil"
    /\ ParseFiles(pre, pathCfg.TemplateFilePath).err = "nil"
    /\ persistedBefore.config.BaseDir \in pre.dirs

\* C29: a `new` without title words is not rejected: it succeeds, the
\* persisted current_id is one above what it was, and the file <n>-.md in
\* the base directory holds the rendering of an ADR with the empty title
\* (with the default template, the heading "# n. " with nothing after it).
C29_EmptyTitleAccepted ==
    NewWithoutTitle =>
      /\ last.err = "nil"
      /\ AdvancedByOne
      /\ persisted.config.BaseDir = persistedBefore.config.BaseDir
      /\ last.path = PathJoin(persistedBefore.config.BaseDir,
                              Itoa(last.number) \o <<"-", ".", "m", "d">>)
      /\ last.path \in DOMAIN files
      /\ files[last.path] = FullRendering
      /\ pre.files[pathCfg.TemplateFilePath] = DefaultTemplate =>
           IsInfix(HeadingLine(last.number, <<>>), files[last.path])

\* the second ADR of a workspace created without title words, with the
\* default template
C29_Witness ==
    /\ NewWithoutTitle
    /\ pre.files[pathCfg.TemplateFilePath] = DefaultTemplate
    /\ last.number = 2
    /\ last.path \in DOMAIN files
    /\ last.path \notin DOMAIN pre.files
    /\ PathBase(last.path) = <<"2", "-", ".", "m", "d">>

====
